---------------------------- MODULE Spec2Model ----------------------------
(***************************************************************************)
(* Kale JupyterLab extension: the KFServing dialogs and their form rules.  *)
(*                                                                         *)
(* Three dialog components are modelled:                                   *)
(*   "serve"    widgets/KFServingDialog.tsx          (Cancel / Run)        *)
(*   "pipeline" widgets/KFServingPipelineDialog.tsx  (Ok)                  *)
(*   "legacy"   the KFServingDialog kept in components/FormInput.tsx       *)
(*                                                   (Cancel / Run)        *)
(* Each one is a react-hook-form form (useForm, mode 'onChange') inside a  *)
(* Material-UI Dialog whose 'open' prop belongs to the host.               *)
(*                                                                         *)
(* A string is a sequence of one-character strings, so that the regular    *)
(* expressions of the rules are evaluated character by character.          *)
(***************************************************************************)
EXTENDS Integers, Sequences, FiniteSets, TLC

VARIABLES
    dlg,      \* which dialog component is mounted
    open,     \* the 'open' prop
    mounted,  \* the Dialog's content (fields, buttons) is in the DOM
    values,   \* registered field |-> current value
    errors,   \* field |-> message, for the fields that have an error
    timers,   \* pending setTimeout callbacks, oldest first: the delay
              \* asked for and whether it has elapsed
    calls,    \* the props callbacks invoked by the latest step, in order
    event,    \* the kind of the latest step
    rule,     \* rule-evaluation specification: the field whose rules run
    input,    \* rule-evaluation specification: the value validated
    result,   \* rule-evaluation specification: validateField's outcome
    params,   \* Katib specification: the parameter list under validation
    verdict   \* Katib specification: the validator's outcome

dvars == <<dlg, open, mounted, values, errors, timers, calls, event>>
rvars == <<rule, input, result>>
kvars == <<params, verdict>>
vars == <<dvars, rvars, kvars>>

----------------------------------------------------------------------------
(* Bounds of the model *)

\* pending validation timers the host may pile up by toggling 'open'
MaxTimers == 2
\* longest string typed into a field of the rule-evaluation specification
MaxLen == 3
\* longest Katib parameter list
MaxParams == 2

----------------------------------------------------------------------------
(* Strings and regular expressions *)

LowerAZ == {"a", "b", "c", "d", "e", "f", "g", "h", "i", "j", "k", "l", "m",
            "n", "o", "p", "q", "r", "s", "t", "u", "v", "w", "x", "y", "z"}
Digits09 == {"0", "1", "2", "3", "4", "5", "6", "7", "8", "9"}

\* A regular expression is a tree of these nodes.
Class(S) == [t |-> "class", s |-> S]
Concat(l, r) == [t |-> "concat", l |-> l, r |-> r]
Star(r) == [t |-> "star", r |-> r]
Plus(r) == [t |-> "plus", r |-> r]
Optional(r) == [t |-> "optional", r |-> r]

RECURSIVE Ends(_, _, _)
RECURSIVE Closure(_, _, _)
\* The positions at which a match of re may end when it starts at one of the
\* positions in From (position i is "before character i").
Ends(re, str, From) ==
    CASE re.t = "class" ->
           {i + 1 : i \in {j \in From : j <= Len(str) /\ str[j] \in re.s}}
      [] re.t = "concat" -> Ends(re.r, str, Ends(re.l, str, From))
      [] re.t = "optional" -> From \cup Ends(re.r, str, From)
      [] re.t = "star" -> Closure(re.r, str, From)
      [] re.t = "plus" -> Closure(re.r, str, Ends(re.r, str, From))
Closure(re, str, From) ==
    LET More == From \cup Ends(re, str, From)
    IN  IF More = From THEN From ELSE Closure(re, str, More)

\* RegExp.prototype.test for a pattern anchored as /^...$/ (no flags).
Test(re, str) == (Len(str) + 1) \in Ends(re, str, {1})

\* Mutant: the last character is not constrained, /^[a-z][a-z0-9-]*$/.
NamePattern_TrailingDash ==
    Concat(Class(LowerAZ), Star(Class(LowerAZ \cup Digits09 \cup {"-"})))
\* /^[a-z]([a-z0-9-]*[a-z0-9])?$/
NamePattern ==
    Concat(Class(LowerAZ),
           Optional(Concat(Star(Class(LowerAZ \cup Digits09 \cup {"-"})),
                           Class(LowerAZ \cup Digits09))))
\* Mutant: a sign is accepted, /^-?[0-9]+$/.
PortPattern_Signed == Concat(Optional(Class({"-"})), Plus(Class(Digits09)))
\* /^[0-9]+$/
PortPattern == Plus(Class(Digits09))

----------------------------------------------------------------------------
(* Fields and their rules *)

Dialogs == {"serve", "pipeline", "legacy"}

RequiredMsg == "Required field"
K8sNameMsg == "Must be a valid K8s resource name"
IntMsg == "Must be an int"
NoError == "no error"

\* Mutant: the Controller of the predictor select is given no rules.
Rules_PredictorOptional(d, f) ==
    CASE f = "name" /\ d \in {"serve", "legacy"} ->
           [required |-> RequiredMsg,
            pattern |-> [value |-> NamePattern, message |-> K8sNameMsg]]
      [] f = "port" /\ d \in {"serve", "legacy"} ->
           [required |-> RequiredMsg,
            pattern |-> [value |-> PortPattern, message |-> IntMsg]]
      [] f = "predictor" -> [norules |-> TRUE]
      [] OTHER -> [required |-> RequiredMsg]
\* The argument of register(...) / Controller rules of each rendered field.
Rules(d, f) ==
    CASE f = "name" /\ d \in {"serve", "legacy"} ->
           [required |-> RequiredMsg,
            pattern |-> [value |-> NamePattern, message |-> K8sNameMsg]]
      [] f = "port" /\ d \in {"serve", "legacy"} ->
           [required |-> RequiredMsg,
            pattern |-> [value |-> PortPattern, message |-> IntMsg]]
      [] OTHER -> [required |-> RequiredMsg]

\* defaultValue of each field; the number 5000 is shown as the text "5000".
DefaultPort == <<"5", "0", "0", "0">>
DefaultValue(f) == IF f = "port" THEN DefaultPort ELSE <<>>

\* react-hook-form's validateField with validateAllFieldCriteria off: the
\* first failing rule gives the error; 'required' is checked before
\* 'pattern', and a pattern is not applied to an empty value.
validateField(rules, value) ==
    IF "required" \in DOMAIN rules /\ value = <<>>
    THEN rules.required
    ELSE IF "pattern" \in DOMAIN rules /\ value # <<>>
            /\ ~Test(rules.pattern.value, value)
         THEN rules.pattern.message
         ELSE NoError

----------------------------------------------------------------------------
(* The dialogs *)

\* setTimeout(..., 500) in the useEffect of every dialog
ValidationDelay == 500

Tensorflow == <<"t", "e", "n", "s", "o", "r", "f", "l", "o", "w">>
PyTorch == <<"p", "y", "t", "o", "r", "c", "h">>
Onnx == <<"o", "n", "n", "x">>
Triton == <<"t", "r", "i", "t", "o", "n">>
SKLearn == <<"s", "k", "l", "e", "a", "r", "n">>
XGBoost == <<"x", "g", "b", "o", "o", "s", "t">>
Custom == <<"c", "u", "s", "t", "o", "m">>
\* the values of the options of both predictor selects
PREDICTOR_VALUES ==
    {Tensorflow, PyTorch, Onnx, Triton, SKLearn, XGBoost, Custom}

Empty == [f \in {} |-> <<>>]
Undefined == <<"undefined">>

\* watch('predictor'): undefined while the field is not registered
predictorValue(vals) ==
    IF "predictor" \in DOMAIN vals THEN vals["predictor"] ELSE Undefined

\* Mutant: the custom-predictor fields are rendered whatever the predictor.
RenderedFields_Always(d, vals) ==
    CASE d = "serve" ->
           {"name", "modelPath", "predictor", "image", "port", "endpoint"}
      [] d = "pipeline" -> {"model", "predictor"}
      [] d = "legacy" -> {"name", "image", "port", "endpoint", "path"}
\* The fields the component's JSX renders inside the open Dialog.
RenderedFields(d, vals) ==
    CASE d = "serve" ->
           {"name", "modelPath", "predictor"}
           \cup (IF predictorValue(vals) = Custom
                 THEN {"image", "port", "endpoint"} ELSE {})
      [] d = "pipeline" -> {"model", "predictor"}
      [] d = "legacy" -> {"name", "image", "port", "endpoint", "path"}

\* A render followed by react-hook-form's bookkeeping: a field that appears
\* is registered with its defaultValue and no error, a field that
\* disappears is unregistered and its value and error are dropped.
RenderValues(d, vals) ==
    [f \in RenderedFields(d, vals) |->
        IF f \in DOMAIN vals THEN vals[f] ELSE DefaultValue(f)]
RenderErrors(d, vals, errs) ==
    [f \in DOMAIN errs \cap RenderedFields(d, vals) |-> errs[f]]

\* Mutant: the field registered through a Controller is not validated.
validateAll_SkipsController(d, vals) ==
    LET Bad == {f \in DOMAIN vals \ {"predictor"} :
                  validateField(Rules(d, f), vals[f]) # NoError}
    IN  [f \in Bad |-> validateField(Rules(d, f), vals[f])]
\* The errors of validating every registered field (handleSubmit and
\* triggerValidation() both walk fieldsRef.current).
validateAll(d, vals) ==
    LET Bad == {f \in DOMAIN vals : validateField(Rules(d, f), vals[f]) # NoError}
    IN  [f \in Bad |-> validateField(Rules(d, f), vals[f])]

\* mode 'onChange': a change event validates the changed field alone.
validateOne(d, f, v, errs) ==
    LET e == validateField(Rules(d, f), v)
        Dom == IF e = NoError THEN DOMAIN errs \ {f} ELSE DOMAIN errs \cup {f}
    IN  [g \in Dom |-> IF g = f THEN e ELSE errs[g]]

Call(fn, args) == [fn |-> fn, args |-> args]

\* Mutant: the data callback is called before toggleDialog.
onSubmit_DataFirst(d, data) ==
    CASE d = "serve" ->
           <<Call("runInferenceService", <<data>>), Call("toggleDialog", <<>>)>>
      [] d = "pipeline" ->
           <<Call("setKFServingMetadata", <<data>>), Call("toggleDialog", <<>>)>>
      [] d = "legacy" -> <<>>
\* onSubmit of each component (the legacy one has its call commented out)
onSubmit(d, data) ==
    CASE d = "serve" ->
           <<Call("toggleDialog", <<>>), Call("runInferenceService", <<data>>)>>
      [] d = "pipeline" ->
           <<Call("toggleDialog", <<>>), Call("setKFServingMetadata", <<data>>)>>
      [] d = "legacy" -> <<>>

\* onCancel / handleClose
onCancel(d) == <<Call("toggleDialog", <<>>)>>

\* Mutant: closing the dialog clears the pending timeouts.
useEffect_ClearsOnClose(isOpen, tm) ==
    IF isOpen
    THEN Append(tm, [delay |-> ValidationDelay, due |-> FALSE])
    ELSE <<>>
\* The effect on [props.open]: it schedules a validation when open is true.
useEffect(isOpen, tm) ==
    IF isOpen
    THEN Append(tm, [delay |-> ValidationDelay, due |-> FALSE])
    ELSE tm

\* What the user can put into a field of the dialogs.
NameSamples == {<<>>, <<"a">>, <<"a", "-">>}
PortSamples == {<<>>, DefaultPort, <<"8", "a">>}
TextSamples == {<<>>, <<"m">>}
Inputs(d, f) ==
    CASE f = "predictor" -> PREDICTOR_VALUES
      [] f = "name" -> NameSamples
      [] f = "port" -> PortSamples
      [] OTHER -> TextSamples

AllFields ==
    {"name", "modelPath", "predictor", "image", "port", "endpoint", "model",
     "path"}

Init ==
    /\ dlg \in Dialogs
    /\ open \in BOOLEAN
    /\ mounted = open
    /\ values = IF open THEN RenderValues(dlg, Empty) ELSE Empty
    /\ errors = Empty
    /\ timers = useEffect(open, <<>>)
    /\ calls = <<>>
    /\ event = "init"
    /\ rule = "none" /\ input = <<>> /\ result = "none"
    /\ params = <<>> /\ verdict = "none"

\* The host sets open to true: the Dialog mounts its content (unless it is
\* still mounted, closing) and the effect runs.
HostOpen ==
    /\ ~open
    /\ Len(timers) < MaxTimers
    /\ open' = TRUE
    /\ mounted' = TRUE
    /\ values' = IF mounted THEN values ELSE RenderValues(dlg, Empty)
    /\ errors' = IF mounted THEN errors ELSE Empty
    /\ timers' = useEffect(TRUE, timers)
    /\ calls' = <<>>
    /\ event' = "open"
    /\ UNCHANGED <<dlg, rvars, kvars>>

\* The host sets open to false: the effect runs, the content stays mounted
\* until the exit transition has ended.
HostClose ==
    /\ open
    /\ open' = FALSE
    /\ timers' = useEffect(FALSE, timers)
    /\ calls' = <<>>
    /\ event' = "close"
    /\ UNCHANGED <<dlg, mounted, values, errors, rvars, kvars>>

\* The exit transition ends: the Dialog unmounts its content, and the form
\* unregisters every field.
Exited ==
    /\ ~open /\ mounted
    /\ mounted' = FALSE
    /\ values' = Empty
    /\ errors' = Empty
    /\ calls' = <<>>
    /\ event' = "exited"
    /\ UNCHANGED <<dlg, open, timers, rvars, kvars>>

\* Time passes: the delay of the oldest timeout still waiting has elapsed
\* (the delays are equal, so the timeouts become due in the order set).
Elapse ==
    /\ \E i \in 1..Len(timers) :
         /\ ~timers[i].due
         /\ \A j \in 1..(i - 1) : timers[j].due
         /\ timers' = [timers EXCEPT ![i].due = TRUE]
    /\ calls' = <<>>
    /\ event' = "elapse"
    /\ UNCHANGED <<dlg, open, mounted, values, errors, rvars, kvars>>

\* The oldest timeout is due: triggerValidation() validates every
\* registered field.
TimerFire ==
    /\ timers # <<>>
    /\ Head(timers).due
    /\ timers' = Tail(timers)
    /\ errors' = validateAll(dlg, values)
    /\ calls' = <<>>
    /\ event' = "timer"
    /\ UNCHANGED <<dlg, open, mounted, values, rvars, kvars>>

\* The user changes field f to v: the field is validated (mode 'onChange')
\* and the component renders again with the new watched value.
Change(f, v) ==
    /\ mounted
    /\ f \in DOMAIN values
    /\ v # values[f]
    /\ LET vals == [values EXCEPT ![f] = v]
           errs == validateOne(dlg, f, v, errors)
       IN  /\ values' = RenderValues(dlg, vals)
           /\ errors' = RenderErrors(dlg, vals, errs)
    /\ calls' = <<>>
    /\ event' = "change"
    /\ UNCHANGED <<dlg, open, mounted, timers, rvars, kvars>>

\* Mutant: onSubmit is the click handler itself, without handleSubmit.
Run_NoValidation ==
    /\ mounted
    /\ calls' = onSubmit(dlg, values)
    /\ event' = "run"
    /\ UNCHANGED <<dlg, open, mounted, values, errors, timers, rvars, kvars>>
\* A click on Run / Ok: handleSubmit(onSubmit) validates every registered
\* field and calls onSubmit with their values only if none has an error.
Run ==
    /\ mounted
    /\ LET errs == validateAll(dlg, values)
       IN  /\ errors' = errs
           /\ calls' = IF errs = Empty THEN onSubmit(dlg, values) ELSE <<>>
    /\ event' = "run"
    /\ UNCHANGED <<dlg, open, mounted, values, timers, rvars, kvars>>

\* Mutant: Cancel also clears the validation errors.
Cancel_ClearsErrors ==
    /\ mounted
    /\ dlg \in {"serve", "legacy"}
    /\ calls' = onCancel(dlg)
    /\ errors' = Empty
    /\ event' = "cancel"
    /\ UNCHANGED <<dlg, open, mounted, values, timers, rvars, kvars>>
\* A click on Cancel (the pipeline dialog has no such button).
Cancel ==
    /\ mounted
    /\ dlg \in {"serve", "legacy"}
    /\ calls' = onCancel(dlg)
    /\ event' = "cancel"
    /\ UNCHANGED <<dlg, open, mounted, values, errors, timers, rvars, kvars>>

Next ==
    \/ HostOpen
    \/ HostClose
    \/ Exited
    \/ Elapse
    \/ TimerFire
    \/ \E f \in AllFields : \E v \in Inputs(dlg, f) : Change(f, v)
    \/ Run
    \/ Cancel

Spec == Init /\ [][Next]_vars

\* The event loop runs due timers and time does not stop.
FairSpec == Spec /\ WF_vars(Elapse) /\ WF_vars(TimerFire)

----------------------------------------------------------------------------
(* Rule evaluation: one field's rules applied to one value *)

RuleAlphabet == {"a", "z", "0", "9", "-", "A", ".", " "}

RECURSIVE StringsUpTo(_)
StringsUpTo(n) ==
    IF n = 0 THEN {<<>>}
    ELSE LET Shorter == StringsUpTo(n - 1)
         IN  Shorter \cup {Append(s, c) : s \in Shorter, c \in RuleAlphabet}

RuleInputs == StringsUpTo(MaxLen) \cup {DefaultPort}

\* every field a dialog can render
FieldsOf(d) ==
    CASE d = "serve" ->
           {"name", "modelPath", "predictor", "image", "port", "endpoint"}
      [] d = "pipeline" -> {"model", "predictor"}
      [] d = "legacy" -> {"name", "image", "port", "endpoint", "path"}

RuleInit ==
    /\ dlg \in Dialogs
    /\ rule \in FieldsOf(dlg)
    /\ input \in RuleInputs
    /\ result = "unvalidated"
    /\ open = FALSE /\ mounted = FALSE /\ values = Empty /\ errors = Empty
    /\ timers = <<>> /\ calls = <<>> /\ event = "init"
    /\ params = <<>> /\ verdict = "none"

\* The field holds 'input' and is validated.
Validate ==
    /\ result = "unvalidated"
    /\ result' = validateField(Rules(dlg, rule), input)
    /\ UNCHANGED <<dvars, rule, input, kvars>>

RuleNext == Validate

RuleSpec == RuleInit /\ [][RuleNext]_vars

----------------------------------------------------------------------------
(* Katib parameters: the validity rules of katib_parameters.schema.json    *)
(* as its documentation states them                                        *)

NoKeys == [k \in {} |-> "null"]
\* feasibleSpace objects: key |-> JSON type of its value
FeasibleSpaces ==
    {NoKeys,
     [min |-> "integer", max |-> "integer"],
     [min |-> "integer", max |-> "number"],
     [min |-> "integer"],
     [list |-> "array"]}
ParameterTypes == {"int", "categorical", "double"}
ParameterNames == {"lr", "depth"}
Parameters ==
    [name : ParameterNames, parameterType : ParameterTypes,
     feasibleSpace : FeasibleSpaces]

\* Mutant: only the presence of the keys is checked, as 'required' does.
feasibleSpaceOk_KeysOnly(p) ==
    LET fs == p.feasibleSpace
    IN  CASE p.parameterType = "int" ->
               "min" \in DOMAIN fs /\ "max" \in DOMAIN fs
          [] p.parameterType = "categorical" -> "list" \in DOMAIN fs
          [] OTHER -> TRUE
\* feasibleSpace depends on parameterType
feasibleSpaceOk(p) ==
    LET fs == p.feasibleSpace
    IN  CASE p.parameterType = "int" ->
               /\ "min" \in DOMAIN fs /\ "max" \in DOMAIN fs
               /\ fs["min"] = "integer" /\ fs["max"] = "integer"
          [] p.parameterType = "categorical" -> "list" \in DOMAIN fs
          [] OTHER -> TRUE

RECURSIVE validateParameters(_, _, _)
\* walks the list from index i on, 'seen' holding the names met so far
validateParameters(ps, i, seen) ==
    IF i > Len(ps) THEN "valid"
    ELSE IF ~feasibleSpaceOk(ps[i]) \/ ps[i].name \in seen THEN "invalid"
         ELSE validateParameters(ps, i + 1, seen \cup {ps[i].name})

RECURSIVE ParameterLists(_)
ParameterLists(n) ==
    IF n = 0 THEN {<<>>}
    ELSE LET Shorter == ParameterLists(n - 1)
         IN  Shorter \cup {Append(ps, p) : ps \in Shorter, p \in Parameters}

KatibInit ==
    /\ params \in ParameterLists(MaxParams)
    /\ verdict = "unchecked"
    /\ dlg = "serve" /\ open = FALSE /\ mounted = FALSE
    /\ values = Empty /\ errors = Empty
    /\ timers = <<>> /\ calls = <<>> /\ event = "init"
    /\ rule = "none" /\ input = <<>> /\ result = "none"

KatibValidate ==
    /\ verdict = "unchecked"
    /\ verdict' = validateParameters(params, 1, {})
    /\ UNCHANGED <<dvars, rvars, params>>

KatibNext == KatibValidate

KatibSpec == KatibInit /\ [][KatibNext]_vars

----------------------------------------------------------------------------
(* What the claims say of a value, stated without the rules' machinery *)

IsNonEmpty(v) == Len(v) > 0
IsK8sName(v) ==
    /\ Len(v) > 0
    /\ v[1] \in LowerAZ
    /\ \A i \in 1..Len(v) : v[i] \in LowerAZ \cup Digits09 \cup {"-"}
    /\ v[Len(v)] \in LowerAZ \cup Digits09
IsDigits(v) == Len(v) > 0 /\ \A i \in 1..Len(v) : v[i] \in Digits09

FieldOk(f, v) ==
    CASE f = "name" -> IsK8sName(v)
      [] f = "port" -> IsDigits(v)
      [] OTHER -> IsNonEmpty(v)
ExpectedMessage(f, v) ==
    CASE v = <<>> -> "Required field"
      [] v # <<>> /\ f = "name" -> "Must be a valid K8s resource name"
      [] v # <<>> /\ f = "port" -> "Must be an int"
ExpectedErrors(vals) ==
    [f \in {g \in DOMAIN vals : ~FieldOk(g, vals[g])} |->
        ExpectedMessage(f, vals[f])]
AllFieldsOk(vals) == \A f \in DOMAIN vals : FieldOk(f, vals[f])

Invoked(cs, fn) == \E i \in 1..Len(cs) : cs[i].fn = fn
ToggleCall == [fn |-> "toggleDialog", args |-> <<>>]

----------------------------------------------------------------------------
(* Claims *)

\* C1: in the Serve dialog runInferenceService is invoked only by a Run
\* click at which every registered field satisfies its rules, and a Run
\* click with a registered field invalid calls neither runInferenceService
\* nor toggleDialog.
C1_RunOnlyWhenValid ==
    [][dlg = "serve" =>
         /\ Invoked(calls', "runInferenceService") =>
              event' = "run" /\ mounted /\ AllFieldsOk(values)
         /\ (event' = "run" /\ ~AllFieldsOk(values)) => calls' = <<>>]_vars
C1_Witness ==
    /\ dlg = "serve" /\ event = "run" /\ calls = <<>>
    /\ DOMAIN values =
         {"name", "modelPath", "predictor", "image", "port", "endpoint"}
    /\ DOMAIN errors = {"port"}
    /\ errors["port"] = "Must be an int"

\* C2: in the Serve dialog a Run click with every registered field valid
\* calls toggleDialog once and then runInferenceService once, the latter
\* with the record of the current field values.
C2_RunCallsInOrder ==
    [][(dlg = "serve" /\ event' = "run" /\ AllFieldsOk(values)) =>
         calls' = <<ToggleCall,
                    [fn |-> "runInferenceService", args |-> <<values>>]>>]_vars
C2_Witness ==
    /\ dlg = "serve" /\ event = "run" /\ Len(calls) = 2
    /\ calls[1].fn = "toggleDialog"
    /\ calls[2].fn = "runInferenceService"
    /\ calls[2].args[1] =
         [name |-> <<"a">>, modelPath |-> <<"m">>, predictor |-> Custom,
          image |-> <<"m">>, port |-> DefaultPort, endpoint |-> <<"m">>]

\* C3: in the pipeline dialog callbacks are called only by an Ok click at
\* which model and predictor are both non-empty; such a click calls
\* toggleDialog once and then setKFServingMetadata once with the form
\* record; the dialog has no Cancel.
PipelineOk(vals) ==
    /\ DOMAIN vals = {"model", "predictor"}
    /\ vals["model"] # <<>>
    /\ vals["predictor"] # <<>>
C3_PipelineOk ==
    [][dlg = "pipeline" =>
         /\ calls' # <<>> => event' = "run" /\ PipelineOk(values)
         /\ (event' = "run" /\ PipelineOk(values)) =>
              calls' = <<ToggleCall,
                         [fn |-> "setKFServingMetadata",
                          args |-> <<values>>]>>
         /\ event' # "cancel"]_vars
C3_Witness ==
    /\ dlg = "pipeline" /\ event = "run"
    /\ calls = <<ToggleCall,
                 [fn |-> "setKFServingMetadata",
                  args |-> <<[model |-> <<"m">>, predictor |-> SKLearn]>>]>>

\* C4: in every dialog each change of open to true schedules exactly one
\* validation with a delay of 500 ms; a change to false schedules none; a
\* pending validation is never cancelled nor changed, it fires only once
\* its delay has elapsed, validating every registered field, and whether
\* the dialog is open or closed the oldest pending validation can always
\* take its next step (its delay elapses, then it fires).
C4_Schedule ==
    [][/\ (~open /\ open') =>
            timers' = Append(timers, [delay |-> 500, due |-> FALSE])
       /\ (open /\ ~open') => timers' = timers
       /\ (open' = open) => Len(timers') <= Len(timers)
       /\ Len(timers') < Len(timers) =>
            /\ event' = "timer"
            /\ Head(timers).due
            /\ timers' = Tail(timers)
            /\ errors' = ExpectedErrors(values)
            /\ values' = values
       /\ (Len(timers') = Len(timers) /\ timers' # timers) =>
            /\ event' = "elapse"
            /\ \A i \in 1..Len(timers) :
                 /\ timers'[i].delay = timers[i].delay
                 /\ timers[i].due => timers'[i].due]_vars
C4_DelayedValidation ==
    /\ C4_Schedule
    /\ [](timers # <<>> =>
            IF Head(timers).due THEN ENABLED TimerFire ELSE ENABLED Elapse)

\* Under the fairness of the event loop the oldest pending validation fires.
PendingValidationFires == (timers # <<>>) ~> (event = "timer")
C4_Witness ==
    /\ event = "timer" /\ ~open /\ mounted
    /\ timers = <<[delay |-> 500, due |-> FALSE]>>
    /\ errors # Empty

\* C5: the name field has three outcomes: "Required field" for the empty
\* string, "Must be a valid K8s resource name" for a non-empty string that
\* is not a lowercase letter followed by lowercase letters, digits and '-'
\* and ended by a lowercase letter or digit, and no error otherwise.
C5_NameOutcomes ==
    (rule = "name" /\ result # "unvalidated") =>
        /\ input = <<>> => result = "Required field"
        /\ (input # <<>> /\ ~IsK8sName(input)) =>
             result = "Must be a valid K8s resource name"
        /\ (input # <<>> /\ IsK8sName(input)) => result = NoError
        /\ (Len(input) = 1 /\ input[1] \in LowerAZ) => result = NoError
C5_Witness ==
    /\ rule = "name" /\ input = <<"a", "-">>
    /\ result = "Must be a valid K8s resource name"

\* C6: the port field is valid iff its value is a non-empty string of
\* decimal digits: empty gives "Required field", a non-digit character
\* gives "Must be an int", the default 5000 gives no error, and no range is
\* enforced.
C6_PortOutcomes ==
    (rule = "port" /\ result # "unvalidated") =>
        /\ result = NoError <=> IsDigits(input)
        /\ input = <<>> => result = "Required field"
        /\ (input # <<>> /\ ~IsDigits(input)) => result = "Must be an int"
        /\ input = DefaultValue("port") => result = NoError
        /\ DefaultValue("port") = <<"5", "0", "0", "0">>
C6_Witness ==
    /\ rule = "port" /\ input = <<"-", "9">>
    /\ result = "Must be an int"

\* C7: a list of Katib parameters is valid only if every int parameter's
\* feasibleSpace has min and max, both integers, every categorical
\* parameter's feasibleSpace has list, and all names differ.
C7_KatibParameters ==
    verdict = "valid" =>
        /\ \A i \in 1..Len(params) :
             LET p == params[i]
             IN  /\ p.parameterType = "int" =>
                       /\ {"min", "max"} \subseteq DOMAIN p.feasibleSpace
                       /\ p.feasibleSpace["min"] = "integer"
                       /\ p.feasibleSpace["max"] = "integer"
                 /\ p.parameterType = "categorical" =>
                       "list" \in DOMAIN p.feasibleSpace
        /\ \A i, j \in 1..Len(params) :
             i # j => params[i].name # params[j].name
C7_Witness ==
    /\ verdict = "valid" /\ Len(params) = 2
    /\ params[1].parameterType = "int"
    /\ params[2].parameterType = "categorical"

\* C8: in the Serve dialog Cancel calls toggleDialog once and nothing else,
\* and changes no field value and no validation error.
C8_Cancel ==
    [][(dlg = "serve" /\ event' = "cancel") =>
         /\ calls' = <<ToggleCall>>
         /\ values' = values
         /\ errors' = errors]_vars
C8_Witness ==
    /\ dlg = "serve" /\ event = "cancel" /\ calls = <<ToggleCall>>
    /\ "name" \in DOMAIN errors
    /\ values["modelPath"] = <<"m">>

\* C9: in the Serve dialog image, port and endpoint are registered iff the
\* predictor is 'custom'; with another predictor a Run succeeds when name,
\* modelPath and predictor are valid; a change of the predictor away from
\* 'custom' drops the three fields with their errors.
CustomFields == {"image", "port", "endpoint"}
C9_CustomFields ==
    [][dlg = "serve" =>
         /\ mounted' =>
              /\ {"name", "modelPath", "predictor"} \subseteq DOMAIN values'
              /\ \A f \in CustomFields :
                   f \in DOMAIN values' <=> values'["predictor"] = Custom
              /\ DOMAIN errors' \subseteq DOMAIN values'
         /\ (/\ event' = "run"
             /\ values["predictor"] # Custom
             /\ IsK8sName(values["name"])
             /\ IsNonEmpty(values["modelPath"])
             /\ IsNonEmpty(values["predictor"])) =>
              Invoked(calls', "runInferenceService")
         /\ (/\ event' = "change"
             /\ values["predictor"] = Custom
             /\ values'["predictor"] # Custom) =>
              /\ DOMAIN values' = {"name", "modelPath", "predictor"}
              /\ DOMAIN errors' \cap CustomFields = {}]_vars
C9_Witness ==
    /\ dlg = "serve" /\ event = "run"
    /\ Invoked(calls, "runInferenceService")
    /\ values = [name |-> <<"a">>, modelPath |-> <<"m">>,
                 predictor |-> Tensorflow]

\* C10: in the Serve dialog with the default values, the delayed validation
\* leaves exactly name, modelPath and predictor in error, each with
\* "Required field", and a Run click in that state calls no callback and
\* leaves the dialog open.
ServeDefaults == [name |-> <<>>, modelPath |-> <<>>, predictor |-> <<>>]
ServeDefaultErrors ==
    [name |-> "Required field", modelPath |-> "Required field",
     predictor |-> "Required field"]
C10_DefaultsValidation ==
    [][dlg = "serve" =>
         /\ (~mounted /\ mounted') => (values' = ServeDefaults /\ errors' = Empty)
         /\ (event' = "timer" /\ values = ServeDefaults) =>
              errors' = ServeDefaultErrors
         /\ (/\ event' = "run"
             /\ values = ServeDefaults
             /\ errors = ServeDefaultErrors) =>
              /\ calls' = <<>>
              /\ open' = open
              /\ errors' = errors]_vars
C10_Witness ==
    /\ dlg = "serve" /\ open /\ event = "run" /\ calls = <<>>
    /\ timers = <<>>
    /\ values = ServeDefaults
    /\ errors = ServeDefaultErrors

=============================================================================
